---- MODULE Spec2Model ----
(***************************************************************************)
(* Model of src/index.js: the express file manager.                        *)
(*                                                                         *)
(* Strings that the code takes apart (file names, ids, extensions) are     *)
(* sequences of one-character strings, so that split('-'), path.extname,   *)
(* the sanitising regex and parseInt are computed as the code computes     *)
(* them.  A relative path below the upload root is the pair <<dir, name>>, *)
(* dir being <<>> for the root or the name of a folder of the root.        *)
(***************************************************************************)
EXTENDS Integers, Sequences, FiniteSets, TLC

VARIABLES
    files,          \* the regular files below uploads/: <<dir, name>> -> [size, mtime]
    folders,        \* the names of the folders directly below uploads/
    fileMetadata,   \* let fileMetadata = {}  : id -> record
    fileHistory,    \* let fileHistory = []   : newest entry first
    savedMetadata,  \* content of file_metadata.json
    savedHistory,   \* content of activity_history.json
    now,            \* Date.now(): the clock advances by one with every request
    nextId,         \* how many ids crypto.randomBytes has produced so far
    pending,        \* the listing request whose fs.readdir callback has not run yet
    resp,           \* the response sent last
    codec           \* the codec harness: input and result of one encode/decode

vars == <<files, folders, fileMetadata, fileHistory, savedMetadata, savedHistory,
          now, nextId, pending, resp, codec>>

-----------------------------------------------------------------------------
(* Bounds of the model *)

\* requests received in one run
MaxReq == 3
\* stand-in for the 1000 of logActivity's cap (src/index.js:159)
HistoryCap == 2
\* longest batch of POST /delete-multiple
MaxBatch == 2
\* longest name given to the codec harness
MaxNameLen == 4
\* largest timestamp given to the codec harness
MaxStamp == 11

\* most '-'-delimited segments of a name given to parseFilename on its own
MaxSegs == 4

\* most segments of req.query.path given to the traversal check
MaxDepth == 3

\* requests that reach the middleware of the connection counter
MaxConnections == 5

-----------------------------------------------------------------------------
(* Characters and strings *)

Lower == {"a","b","c","d","e","f","g","h","i","j","k","l","m",
          "n","o","p","q","r","s","t","u","v","w","x","y","z"}
Upper == {"A","B","C","D","E","F","G","H","I","J","K","L","M",
          "N","O","P","Q","R","S","T","U","V","W","X","Y","Z"}
Digits == {"0","1","2","3","4","5","6","7","8","9"}

\* the characters the class [^a-zA-Z0-9._-] does not match
SafeChars == Lower \cup Upper \cup Digits \cup {".", "_", "-"}
SafeChar(ch) == ch \in SafeChars

\* s.replace(/[^a-zA-Z0-9._-]/g, '_')
Sanitize(s) == [i \in 1..Len(s) |-> IF SafeChar(s[i]) THEN s[i] ELSE "_"]

LowerSeq == <<"a","b","c","d","e","f","g","h","i","j","k","l","m",
             "n","o","p","q","r","s","t","u","v","w","x","y","z">>
UpperSeq == <<"A","B","C","D","E","F","G","H","I","J","K","L","M",
             "N","O","P","Q","R","S","T","U","V","W","X","Y","Z">>

LowerOfUpper == [ch \in Upper |-> LowerSeq[CHOOSE n \in 1..26 : UpperSeq[n] = ch]]

LowerOf(ch) == IF ch \in Upper THEN LowerOfUpper[ch] ELSE ch

\* s.toLowerCase()
ToLowerCase(s) == [i \in 1..Len(s) |-> LowerOf(s[i])]

\* does t occur in s as a substring
Contains(s, t) ==
    \E i \in 1..(Len(s) - Len(t) + 1) : SubSeq(s, i, i + Len(t) - 1) = t

\* position of the last ch in s, 0 if there is none
LastIndexOf(s, ch) ==
    LET P == {i \in 1..Len(s) : s[i] = ch}
    IN  IF P = {} THEN 0 ELSE CHOOSE i \in P : \A j \in P : j <= i

\* path.extname(name) of a name without '/': from the last '.' on; empty when
\* there is no '.', when the last '.' is the first character, or for '..'
ExtName(name) ==
    LET d == LastIndexOf(name, ".")
    IN  IF d = 0 \/ d = 1 \/ name = <<".", ".">> THEN <<>>
        ELSE SubSeq(name, d, Len(name))

\* path.basename(name, ext) of a name without '/'
BaseName(name, ext) ==
    IF /\ Len(ext) > 0
       /\ Len(ext) < Len(name)
       /\ SubSeq(name, Len(name) - Len(ext) + 1, Len(name)) = ext
    THEN SubSeq(name, 1, Len(name) - Len(ext))
    ELSE name

DigitSeq == <<"0","1","2","3","4","5","6","7","8","9">>

DigitChar(d) == DigitSeq[d + 1]

DigitValueOf == [ch \in Digits |-> CHOOSE d \in 0..9 : DigitSeq[d + 1] = ch]

DigitValue(ch) == DigitValueOf[ch]

\* String(n) of an integer n >= 0, as in a template literal
RECURSIVE NumToStr(_)
NumToStr(n) == IF n < 10 THEN <<DigitChar(n)>>
               ELSE NumToStr(n \div 10) \o <<DigitChar(n % 10)>>

NaN == -1

RECURSIVE DigitsValue(_, _)
DigitsValue(s, acc) ==
    IF s = <<>> \/ Head(s) \notin Digits THEN acc
    ELSE DigitsValue(Tail(s), 10 * acc + DigitValue(Head(s)))

RECURSIVE SkipSpace(_)
SkipSpace(s) == IF s # <<>> /\ Head(s) = " " THEN SkipSpace(Tail(s)) ELSE s

\* parseInt(s) on the strings of the model: leading blanks are skipped, an
\* optional '+' is accepted, then the longest run of digits is read and what
\* follows it is ignored; NaN when no digit is found.  (s never starts with
\* '-', being a piece of split('-').)
ParseInt(s) ==
    LET t == SkipSpace(s)
        u == IF t # <<>> /\ Head(t) = "+" THEN Tail(t) ELSE t
    IN  IF u = <<>> \/ Head(u) \notin Digits THEN NaN ELSE DigitsValue(u, 0)

\* s.split('-'): the pieces between the '-' of s, in order
Split(s) ==
    LET dashes == {i \in 1..Len(s) : s[i] = "-"}
        \* the k-th piece starts after the (k-1)-th '-' and ends before the k-th
        nth(k) == CHOOSE i \in dashes : Cardinality({j \in dashes : j < i}) = k - 1
        from(k) == IF k = 1 THEN 1 ELSE nth(k - 1) + 1
        upto(k) == IF k = Cardinality(dashes) + 1 THEN Len(s) ELSE nth(k) - 1
    IN  [k \in 1..(Cardinality(dashes) + 1) |-> SubSeq(s, from(k), upto(k))]

\* parts.join('-')
RECURSIVE Join(_)
Join(parts) ==
    IF Len(parts) = 0 THEN <<>>
    ELSE IF Len(parts) = 1 THEN parts[1]
    ELSE parts[1] \o <<"-">> \o Join(Tail(parts))

-----------------------------------------------------------------------------
(* Filename codec *)

\* null, and the missing result of a lookup
Null == <<>>

\* parseFilename
parseFilename(filename) ==
    LET parts == Split(filename)
    IN  IF Len(parts) < 3 THEN Null
        ELSE LET uploadedTimestamp == ParseInt(parts[1])
                 fileId == parts[2]
                 originalName == Join(SubSeq(parts, 3, Len(parts)))
             IN  IF uploadedTimestamp = NaN \/ fileId = <<>> \/ originalName = <<>>
                 THEN Null
                 ELSE [uploadedTimestamp |-> uploadedTimestamp,
                       fileId |-> fileId,
                       originalName |-> originalName]

\* multer storage.filename, given Date.now() and the random id: only the part
\* of the name before the extension is sanitised
StorageFilename(uniqueSuffix, fileId, originalname) ==
    LET originalExtension == ExtName(originalname)
        sanitizedName == Sanitize(BaseName(originalname, originalExtension))
    IN  NumToStr(uniqueSuffix) \o <<"-">> \o fileId \o <<"-">>
            \o sanitizedName \o originalExtension

-----------------------------------------------------------------------------
(* Type classifier *)

TypeMap ==
       { <<e, "image">> : e \in {<<"j","p","g">>, <<"j","p","e","g">>, <<"p","n","g">>, <<"g","i","f">>, <<"w","e","b","p">>, <<"b","m","p">>, <<"i","c","o">>} }
       \cup { <<e, "pdf">> : e \in {<<"p","d","f">>} }
       \cup { <<e, "document">> : e \in {<<"d","o","c">>, <<"d","o","c","x">>} }
       \cup { <<e, "spreadsheet">> : e \in {<<"x","l","s">>, <<"x","l","s","x">>} }
       \cup { <<e, "presentation">> : e \in {<<"p","p","t">>, <<"p","p","t","x">>} }
       \cup { <<e, "text">> : e \in {<<"t","x","t">>, <<"c","s","v">>, <<"j","s","o","n">>, <<"m","d">>, <<"x","m","l">>, <<"l","o","g">>} }
       \cup { <<e, "code">> : e \in {<<"j","s">>, <<"h","t","m","l">>, <<"c","s","s">>, <<"p","h","p">>, <<"p","y">>, <<"c">>, <<"c","p","p">>, <<"j","a","v","a">>, <<"s","h">>} }
       \cup { <<e, "archive">> : e \in {<<"z","i","p">>, <<"t","a","r">>, <<"g","z">>, <<"r","a","r">>, <<"7","z">>} }
       \cup { <<e, "audio">> : e \in {<<"m","p","3">>, <<"w","a","v">>, <<"o","g","g">>, <<"f","l","a","c">>} }
       \cup { <<e, "video">> : e \in {<<"m","p","4">>, <<"m","o","v">>, <<"a","v","i">>, <<"w","e","b","m">>, <<"m","k","v">>} }

TypeExts == { p[1] : p \in TypeMap }

\* the keys that typeMap, an object literal, inherits from Object.prototype
\* and that a lower-cased extension can spell
InheritedKeys ==
    { <<"c","o","n","s","t","r","u","c","t","o","r">>,
      <<"_","_","p","r","o","t","o","_","_">> }

\* typeMap[ext] for an inherited key: typeMap.constructor is the function
\* Object, typeMap.__proto__ is the object Object.prototype
FunctionObject == "function Object"
InheritedMember(ext) ==
    IF ext = <<"c","o","n","s","t","r","u","c","t","o","r">>
    THEN FunctionObject ELSE "Object.prototype"

\* getFileType: typeMap[ext] || 'other'.  For an inherited key typeMap[ext]
\* is Object.prototype's member, which is truthy and is what is returned
getFileType(filename) ==
    LET dotted == ToLowerCase(ExtName(filename))
        ext == IF dotted = <<>> THEN <<>> ELSE Tail(dotted)
    IN  IF ext \in TypeExts THEN (CHOOSE p \in TypeMap : p[1] = ext)[2]
        ELSE IF ext \in InheritedKeys THEN InheritedMember(ext)
        ELSE "other"

\* the alternatives of the regex allowedFileTypes
AllowedTokens ==
    { <<"j","p","e","g">>, <<"j","p","g">>, <<"p","n","g">>, <<"g","i","f">>, <<"w","e","b","p">>, <<"b","m","p">>, <<"p","d","f">>, <<"d","o","c">>, <<"d","o","c","x">>, <<"x","l","s">>, <<"x","l","s","x">>, <<"p","p","t">>, <<"p","p","t","x">>, <<"t","x","t">>, <<"c","s","v">>, <<"j","s","o","n">>, <<"x","m","l">>, <<"m","d">>, <<"l","o","g">>, <<"j","s">>, <<"h","t","m","l">>, <<"c","s","s">>, <<"p","h","p">>, <<"p","y">>, <<"c">>, <<"c","p","p">>, <<"j","a","v","a">>, <<"s","h">>, <<"z","i","p">>, <<"t","a","r">>, <<"g","z">>, <<"r","a","r">>, <<"7","z">>, <<"m","p","3">>, <<"w","a","v">>, <<"o","g","g">>, <<"f","l","a","c">>, <<"m","p","4">>, <<"m","o","v">>, <<"a","v","i">>, <<"w","e","b","m">>, <<"m","k","v">>, <<"i","c","o">> }

\* allowedFileTypes.test(s): the regex is not anchored
AllowedFileTypes(s) == \E t \in AllowedTokens : Contains(s, t)

\* multer fileFilter
fileFilter(file) ==
    /\ AllowedFileTypes(ToLowerCase(ExtName(file.originalname)))
    /\ AllowedFileTypes(file.mimetype)

-----------------------------------------------------------------------------
(* Values *)

\* the upload root as a directory, and path.dirname of a file of the root
Root == <<>>
Dot  == <<".">>

\* the fileId of a name that does not parse
NA == <<"N","/","A">>

\* 'N/A' in the downloads column of a listing
NotTracked == -1

\* new Date(t).toISOString(): one string per millisecond
ToISOString(t) == [iso |-> t]


\* the ids crypto.randomBytes(16).toString('hex') returns, in order: every
\* call returns an id never seen before
FreshIds == << <<"a">>, <<"b">> >>

\* a file left in uploads/ by an earlier run of the server, its record and
\* the log entry of its upload
InitName == <<"1","-","p","-","x",".","c">>
InitPath == <<Root, InitName>>
InitStat == [size |-> 1, mtime |-> 1]
InitRecord ==
    [id |-> <<"p">>, name |-> <<"x",".","c">>, size |-> 1,
     uploaded |-> ToISOString(1), type |-> "code", path |-> InitPath,
     originalName |-> <<"x",".","c">>, downloads |-> 0, lastAccessed |-> Null,
     lastModified |-> ToISOString(1)]
InitEntry ==
    [action |-> "upload", filename |-> <<"x",".","c">>, fileId |-> <<"p">>,
     timestamp |-> ToISOString(1), currentPath |-> <<>>]

\* the clock when the server starts: later than the earlier run
StartTime == InitStat.mtime + 1

(* Inputs of the requests *)

FolderNames == { <<"d">> }
Dirs == {Root} \cup FolderNames

\* req.body.currentPath and req.files (before the filter) of an upload
UploadRequests ==
    LET x == [originalname |-> <<"x",".","c">>, mimetype |-> <<"t","e","x","t","/","x","-","c">>, size |-> 1]
        n == [originalname |-> <<"n">>, mimetype |-> <<"t","e","x","t","/","x","-","c">>, size |-> 1]
    IN  { [dir |-> Root, list |-> <<>>], [dir |-> Root, list |-> <<x>>],
          [dir |-> Root, list |-> <<x, x>>], [dir |-> Root, list |-> <<n>>],
          [dir |-> <<"d">>, list |-> <<x>>] }

\* req.body.newName of a rename
NewNames ==
    { <<>>, <<"y",".","z">>, <<"2","-","p","-","y">>,
      <<"y",".","c","o","n","s","t","r","u","c","t","o","r">> }

\* size of req.body.content of a save
ContentSizes == {2}

Reverse(s) == [i \in 1..Len(s) |-> s[Len(s) + 1 - i]]

Range(s) == { s[i] : i \in 1..Len(s) }

Put(f, k, v) == [x \in DOMAIN f \cup {k} |-> IF x = k THEN v ELSE f[x]]

Remove(f, k) == [x \in DOMAIN f \ {k} |-> f[x]]

\* { ...rec, ...updates }
Merge(rec, updates) ==
    [x \in DOMAIN rec \cup DOMAIN updates |-> IF x \in DOMAIN updates THEN updates[x] ELSE rec[x]]

-----------------------------------------------------------------------------
(* The file system *)

\* fs.existsSync(p) && fs.lstatSync(p).isFile()
IsFile(p) == p \in DOMAIN files

\* fs.existsSync(p) && fs.lstatSync(p).isDirectory()
IsDirectory(p) == p[1] = Root /\ p[2] \in folders

\* fs.existsSync(p)
ExistsSync(p) == IsFile(p) \/ IsDirectory(p)

\* path.dirname(relativePath)
Dirname(p) == IF p[1] = Root THEN Dot ELSE p[1]

\* the paths requests are made for: what exists, and the file of the earlier
\* run whether it still exists or not
Targets == DOMAIN files \cup { <<Root, f>> : f \in folders } \cup {InitPath}

-----------------------------------------------------------------------------
(* Stores *)

\* logActivity without the pop of line 159
LogActivityUncapped(hist, action, filename, fileId, currentPath) ==
    << [action |-> action, filename |-> filename, fileId |-> fileId,
        timestamp |-> ToISOString(now), currentPath |-> currentPath] >> \o hist

\* logActivity, without its save: the log after the call
LogActivity(hist, action, filename, fileId, currentPath) ==
    LET unshifted == << [action |-> action, filename |-> filename, fileId |-> fileId,
                         timestamp |-> ToISOString(now), currentPath |-> currentPath] >>
                     \o hist
    IN  IF Len(unshifted) > HistoryCap
        THEN SubSeq(unshifted, 1, Len(unshifted) - 1)
        ELSE unshifted

\* updateFileMetadata, without its save: the store after the call
UpdateFileMetadata(meta, fileId, updates) ==
    IF fileId \in DOMAIN meta
    THEN [meta EXCEPT ![fileId] = Merge(@, updates)]
    ELSE meta

\* a persisted document: whether the file exists, whether JSON.parse accepts
\* its text, and the value that was written.  NoDocument: the file is absent;
\* Document(v): the text writeFileSync(file, JSON.stringify(v, null, 2))
\* leaves; Damaged(v): such a text cut or overwritten so that JSON.parse throws
NoDocument  == [exists |-> FALSE, valid |-> FALSE, value |-> <<>>]
Document(v) == [exists |-> TRUE, valid |-> TRUE, value |-> v]
Damaged(v)  == [exists |-> TRUE, valid |-> FALSE, value |-> v]

\* a load that takes what was written from a text JSON.parse rejects
LoadDocumentLenient(doc, empty) ==
    IF doc.exists THEN doc.value ELSE empty

\* one try block of loadPersistentData (lines 32-40, 41-49): the value the
\* variable has after it, empty being its initial value and the value the
\* catch resets it to
LoadDocument(doc, empty) ==
    IF ~doc.exists THEN empty
    ELSE IF doc.valid THEN doc.value
    ELSE empty

\* JSON.stringify of the store, as the value JSON.parse gives back for it: a
\* property whose value is a function is left out; strings, numbers, null and
\* the nested objects of the records and log entries come back as they were
Stringify(meta) ==
    [id \in DOMAIN meta |->
        IF meta[id].type = FunctionObject
        THEN [k \in DOMAIN meta[id] \ {"type"} |-> meta[id][k]]
        ELSE meta[id]]

\* savePersistentData
SavePersistentData(meta, hist) ==
    /\ savedMetadata' = Document(Stringify(meta))
    /\ savedHistory' = Document(hist)

-----------------------------------------------------------------------------
(* Start of the server *)

\* what an earlier run left: nothing at all; the file without the two
\* documents; the file with both documents
EarlierRuns ==
    { [files |-> <<>>, metadata |-> NoDocument, history |-> NoDocument],
      [files |-> [p \in {InitPath} |-> InitStat],
       metadata |-> NoDocument, history |-> NoDocument],
      [files |-> [p \in {InitPath} |-> InitStat],
       metadata |-> Document([i \in {<<"p">>} |-> InitRecord]),
       history |-> Document(<<InitEntry>>)] }

\* the server after loadPersistentData (line 63) over what a run left
InitFrom(runs) ==
    /\ \E run \in runs :
          /\ files = run.files
          /\ savedMetadata = run.metadata
          /\ savedHistory = run.history
    /\ fileMetadata = LoadDocument(savedMetadata, <<>>)
    /\ fileHistory = LoadDocument(savedHistory, <<>>)
    /\ folders = {}
    /\ now = StartTime
    /\ nextId = 0
    /\ pending = Null
    /\ resp = [op |-> "none", status |-> 0]
    /\ codec = [stage |-> "idle"]

Init == InitFrom(EarlierRuns)

\* a request is received: the bound on the run, and the clock read by the
\* next request
Receive ==
    /\ now - StartTime < MaxReq
    /\ now' = now + 1

-----------------------------------------------------------------------------
(* GET / *)

\* rank of a character in the order of localeCompare, for the characters of
\* the names of the model: blank, punctuation, digits, letters
LetterRank == [ch \in Lower |-> CHOOSE n \in 1..26 : LowerSeq[n] = ch]

CharRank(ch) ==
    CASE ch = " " -> 0 [] ch = "_" -> 1 [] ch = "-" -> 2 [] ch = "." -> 3 [] ch = "/" -> 4
      [] ch \in Digits -> 10 + DigitValue(ch)
      [] OTHER -> 20 + LetterRank[LowerOf(ch)]

\* a.localeCompare(b) < 0: decided by the first position where a and b differ
LocaleLess(a, b) ==
    LET m == IF Len(a) < Len(b) THEN Len(a) ELSE Len(b)
        diff == {i \in 1..m : CharRank(a[i]) # CharRank(b[i])}
    IN  IF diff = {} THEN Len(a) < Len(b)
        ELSE LET i == CHOOSE k \in diff : \A j \in diff : k <= j
             IN  CharRank(a[i]) < CharRank(b[i])

\* the items left in the order they were pushed in
InPushOrder(s) == s

\* Array.prototype.sort((a, b) => a.name.localeCompare(b.name)): stable
RECURSIVE SortByName(_)
SortByName(s) ==
    IF Len(s) <= 1 THEN s
    ELSE LET rest == SortByName(SubSeq(s, 1, Len(s) - 1))
             x    == s[Len(s)]
             k    == Cardinality({i \in 1..Len(rest) : ~LocaleLess(x.name, rest[i].name)})
         IN  SubSeq(rest, 1, k) \o <<x>> \o SubSeq(rest, k + 1, Len(rest))

\* a first-sight record that counts the listing as a download
FirstSightRecordCounted(parsed, stats, name, entryPath) ==
    [id |-> parsed.fileId, name |-> parsed.originalName, size |-> stats.size,
     uploaded |-> ToISOString(parsed.uploadedTimestamp), type |-> getFileType(name),
     path |-> entryPath, originalName |-> parsed.originalName, downloads |-> 1,
     lastAccessed |-> Null, lastModified |-> ToISOString(stats.mtime)]

\* the record made for a managed file seen for the first time (lines 319-330)
FirstSightRecord(parsed, stats, name, entryPath) ==
    [id |-> parsed.fileId, name |-> parsed.originalName, size |-> stats.size,
     uploaded |-> ToISOString(parsed.uploadedTimestamp), type |-> getFileType(name),
     path |-> entryPath, originalName |-> parsed.originalName, downloads |-> 0,
     lastAccessed |-> Null, lastModified |-> ToISOString(stats.mtime)]

\* the refresh of the record of a managed file (lines 334-337)
RefreshRecord(rec, stats, name, entryPath) ==
    [rec EXCEPT !.size = stats.size, !.path = entryPath,
                !.lastModified = ToISOString(stats.mtime), !.type = getFileType(name)]

\* an item for a name that does not decode, with the path as its id and a
\* count of downloads
UnmanagedItemTracked(entry, stats) ==
    [id |-> <<Root, entry.name>>, fileId |-> NA, name |-> entry.name,
     size |-> stats.size, type |-> getFileType(entry.name), downloads |-> 0]

\* the item pushed for a file whose name does not decode (lines 297-311)
UnmanagedItem(entry, stats) ==
    [id |-> entry.name, fileId |-> NA, name |-> entry.name,
     size |-> stats.size, type |-> getFileType(entry.name),
     downloads |-> NotTracked]

\* the body of entries.forEach for one entry; acc = [meta, files, folders].
\* statSync throws for a file that is gone, and the entry is left out
ProcessEntry(entry, dir, acc) ==
    LET entryPath == <<dir, entry.name>>
    IN  IF entry.isDirectory
        THEN [acc EXCEPT !.folders =
                  Append(@, [id |-> entryPath, name |-> entry.name, type |-> "folder"])]
        ELSE IF ~IsFile(entryPath) THEN acc
        ELSE LET stats  == files[entryPath]
                 parsed == parseFilename(entry.name)
             IN  IF parsed = Null
                 THEN [acc EXCEPT !.files = Append(@, UnmanagedItem(entry, stats))]
                 ELSE LET fileId == parsed.fileId
                          meta2  == IF fileId \notin DOMAIN acc.meta
                                    THEN Put(acc.meta, fileId,
                                             FirstSightRecord(parsed, stats, entry.name, entryPath))
                                    ELSE [acc.meta EXCEPT ![fileId] =
                                             RefreshRecord(@, stats, entry.name, entryPath)]
                          fileEntry == meta2[fileId]
                      IN  [meta |-> meta2,
                           files |-> Append(acc.files,
                                       [id |-> entryPath, fileId |-> fileId,
                                        name |-> parsed.originalName, size |-> fileEntry.size,
                                        type |-> fileEntry.type,
                                        downloads |-> fileEntry.downloads]),
                           folders |-> acc.folders]

RECURSIVE ProcessEntries(_, _, _)
ProcessEntries(entries, dir, acc) ==
    IF entries = <<>> THEN acc
    ELSE ProcessEntries(Tail(entries), dir, ProcessEntry(Head(entries), dir, acc))

\* a set of entries as a sequence, in the order of the names
RECURSIVE InNameOrder(_)
InNameOrder(S) ==
    IF S = {} THEN <<>>
    ELSE LET x == CHOOSE e \in S : \A o \in S : o = e \/ LocaleLess(e.name, o.name)
         IN  <<x>> \o InNameOrder(S \ {x})

\* the orders fs.readdir may hand the entries over in: the order is the file
\* system's; the model takes an order and its reverse, so that of any two
\* entries either can come last
ReaddirOrders(S) == { InNameOrder(S), Reverse(InNameOrder(S)) }

\* fs.readdir(absolutePath, {withFileTypes: true}) at the time it reads
Readdir(dir) ==
    { [name |-> p[2], isDirectory |-> FALSE] : p \in {q \in DOMAIN files : q[1] = dir} }
    \cup (IF dir = Root THEN { [name |-> f, isDirectory |-> TRUE] : f \in folders } ELSE {})

\* GET /?path=dir up to the call of fs.readdir, and the read itself
ListStart(dir) ==
    /\ Receive
    /\ pending = Null
    /\ pending' = IF dir = Root \/ dir \in folders
                  THEN [url |-> "/", dir |-> dir, err |-> "", entries |-> Readdir(dir)]
                  ELSE [url |-> "/", dir |-> dir, err |-> "ENOENT", entries |-> {}]
    /\ UNCHANGED <<files, folders, fileMetadata, fileHistory, savedMetadata,
                   savedHistory, nextId, resp, codec>>

\* the callback of fs.readdir
ListCallback ==
    /\ pending # Null
    /\ pending.url = "/"
    /\ pending' = Null
    /\ IF pending.err = "ENOENT"
       THEN /\ resp' = [op |-> "list", status |-> 404, dir |-> pending.dir]
            /\ UNCHANGED <<fileMetadata, fileHistory, savedMetadata, savedHistory>>
       ELSE IF pending.err # ""
       THEN /\ resp' = [op |-> "list", status |-> 500, dir |-> pending.dir]
            /\ UNCHANGED <<fileMetadata, fileHistory, savedMetadata, savedHistory>>
       ELSE \E order \in ReaddirOrders(pending.entries) :
              LET done == ProcessEntries(order, pending.dir,
                                         [meta |-> fileMetadata, files |-> <<>>, folders |-> <<>>])
                  hist == LogActivity(fileHistory, "view_folder",
                                      IF pending.dir = Root THEN <<"/">> ELSE pending.dir,
                                      NA, <<"/">>)
              IN  /\ fileMetadata' = done.meta
                  /\ fileHistory' = hist
                  /\ SavePersistentData(done.meta, hist)
                  /\ resp' = [op |-> "list", status |-> 200, dir |-> pending.dir,
                              folders |-> SortByName(done.folders),
                              files |-> SortByName(done.files)]
    /\ UNCHANGED <<files, folders, now, nextId, codec>>

-----------------------------------------------------------------------------
(* GET /api/files *)

\* the item entries.map makes of one entry, Null where statSync throws: the
\* entry is gone by the time the callback runs.  The item carries the fields
\* the model's file system and store have values for
ApiItem(entry, dir) ==
    LET itemRelativePath == <<dir, entry.name>>
    IN  IF entry.isDirectory
        THEN IF ~IsDirectory(itemRelativePath) THEN Null
             ELSE [id |-> itemRelativePath, name |-> entry.name, type |-> "folder",
                   isManaged |-> FALSE]
        ELSE IF ~IsFile(itemRelativePath) THEN Null
        ELSE LET stats        == files[itemRelativePath]
                 parsed       == parseFilename(entry.name)
                 fileId       == IF parsed # Null THEN parsed.fileId ELSE NA
                 originalName == IF parsed # Null THEN parsed.originalName ELSE entry.name
                 isManaged    == parsed # Null
                 fileInfo     == [id |-> itemRelativePath, name |-> originalName,
                                  size |-> stats.size, type |-> getFileType(entry.name),
                                  isManaged |-> isManaged, downloads |-> NotTracked,
                                  lastAccessed |-> NA]
             IN  IF isManaged /\ fileId \in DOMAIN fileMetadata
                 THEN [fileInfo EXCEPT !.downloads = fileMetadata[fileId].downloads,
                                       !.lastAccessed = fileMetadata[fileId].lastAccessed]
                 ELSE fileInfo

\* entries.map(...) without the filter of line 861
ApiItemsUnfiltered(entries, dir) ==
    [i \in 1..Len(entries) |-> ApiItem(entries[i], dir)]

\* entries.map(...).filter(item => item !== null)
RECURSIVE ApiItems(_, _)
ApiItems(entries, dir) ==
    IF entries = <<>> THEN <<>>
    ELSE LET item == ApiItem(Head(entries), dir)
         IN  (IF item = Null THEN <<>> ELSE <<item>>) \o ApiItems(Tail(entries), dir)

\* GET /api/files?path=dir up to the call of fs.readdir, and the read itself
ApiFilesStart(dir) ==
    /\ Receive
    /\ pending = Null
    /\ pending' = IF dir = Root \/ dir \in folders
                  THEN [url |-> "/api/files", dir |-> dir, err |-> "",
                        entries |-> Readdir(dir)]
                  ELSE [url |-> "/api/files", dir |-> dir, err |-> "ENOENT",
                        entries |-> {}]
    /\ UNCHANGED <<files, folders, fileMetadata, fileHistory, savedMetadata,
                   savedHistory, nextId, resp, codec>>

\* the callback of fs.readdir: any error is answered with 500
ApiFilesCallback ==
    /\ pending # Null
    /\ pending.url = "/api/files"
    /\ pending' = Null
    /\ IF pending.err # ""
       THEN resp' = [op |-> "api_files", status |-> 500, dir |-> pending.dir]
       ELSE \E order \in ReaddirOrders(pending.entries) :
              resp' = [op |-> "api_files", status |-> 200, dir |-> pending.dir,
                       items |-> ApiItems(order, pending.dir)]
    /\ UNCHANGED <<files, folders, fileMetadata, fileHistory, savedMetadata,
                   savedHistory, now, nextId, codec>>

-----------------------------------------------------------------------------
(* POST /upload *)

\* the record of an uploaded file (lines 384-395)
UploadRecord(parsed, file, filename, dir) ==
    [id |-> parsed.fileId, name |-> parsed.originalName, size |-> file.size,
     uploaded |-> ToISOString(parsed.uploadedTimestamp), type |-> getFileType(filename),
     path |-> <<dir, filename>>, originalName |-> parsed.originalName, downloads |-> 0,
     lastAccessed |-> Null, lastModified |-> ToISOString(now)]

\* the files of the inputs that pass the filter
Accepted == { f \in UNION { Range(r.list) : r \in UploadRequests } : fileFilter(f) }

\* the name multer stores the k-th file of the request under
StoredName(list, k) == StorageFilename(now, FreshIds[nextId + k], list[k].originalname)

\* req.files.forEach (lines 379-401) from the k-th file on; st = [meta, hist]
RECURSIVE UploadEach(_, _, _, _)
UploadEach(list, k, dir, st) ==
    IF k > Len(list) THEN st
    ELSE LET filename == StoredName(list, k)
             parsed   == parseFilename(filename)
         IN  UploadEach(list, k + 1, dir,
               IF parsed # Null
               THEN [meta |-> Put(st.meta, parsed.fileId,
                                  UploadRecord(parsed, list[k], filename, dir)),
                     hist |-> LogActivity(st.hist, "upload", parsed.originalName,
                                          parsed.fileId, dir)]
               ELSE [meta |-> st.meta,
                     hist |-> LogActivity(st.hist, "upload", list[k].originalname, NA, dir)])

\* multer (fileFilter, destination, filename) and the handler.  A file the
\* filter refuses ends the request in the error handler; multer removes what
\* it had stored, the folder made for an earlier file stays.
Upload(dir, list) ==
    /\ Receive
    /\ dir = Root \/ ~IsFile(<<Root, dir>>)
    /\ IF \E k \in 1..Len(list) : list[k] \notin Accepted
       THEN /\ resp' = [op |-> "upload", status |-> 500]
            /\ folders' = IF dir # Root /\ list[1] \in Accepted
                          THEN folders \cup {dir} ELSE folders
            /\ UNCHANGED <<files, fileMetadata, fileHistory, savedMetadata, savedHistory, nextId>>
       ELSE IF list = <<>>
       THEN /\ resp' = [op |-> "upload", status |-> 400]
            /\ UNCHANGED <<files, folders, fileMetadata, fileHistory, savedMetadata,
                           savedHistory, nextId>>
       ELSE /\ nextId + Len(list) <= Len(FreshIds)
            /\ LET stored == { <<dir, StoredName(list, k)>> : k \in 1..Len(list) }
                   sizeOf(q) == (CHOOSE k \in 1..Len(list) : q = <<dir, StoredName(list, k)>>)
                   st == UploadEach(list, 1, dir, [meta |-> fileMetadata, hist |-> fileHistory])
               IN  /\ files' = [q \in DOMAIN files \cup stored |->
                                   IF q \in stored
                                   THEN [size |-> list[sizeOf(q)].size, mtime |-> now]
                                   ELSE files[q]]
                   /\ folders' = IF dir = Root THEN folders ELSE folders \cup {dir}
                   /\ fileMetadata' = st.meta
                   /\ fileHistory' = st.hist
                   /\ SavePersistentData(st.meta, st.hist)
                   /\ nextId' = nextId + Len(list)
                   /\ resp' = [op |-> "upload", status |-> 302, n |-> Len(list)]
    /\ UNCHANGED <<pending, codec>>

-----------------------------------------------------------------------------
(* POST /create-folder, in the root *)

CreateFolder(folderName) ==
    /\ Receive
    /\ IF folderName = <<>>
       THEN /\ resp' = [op |-> "create_folder", status |-> 400]
            /\ UNCHANGED <<folders, fileHistory, savedMetadata, savedHistory>>
       ELSE LET sanitizedFolderName == Sanitize(folderName)
            IN  IF IsFile(<<Root, sanitizedFolderName>>)
                THEN /\ resp' = [op |-> "create_folder", status |-> 500]
                     /\ UNCHANGED <<folders, fileHistory, savedMetadata, savedHistory>>
                ELSE LET hist == LogActivity(fileHistory, "create_folder",
                                             sanitizedFolderName, NA, <<>>)
                     IN  /\ folders' = folders \cup {sanitizedFolderName}
                         /\ fileHistory' = hist
                         /\ SavePersistentData(fileMetadata, hist)
                         /\ resp' = [op |-> "create_folder", status |-> 302]
    /\ UNCHANGED <<files, fileMetadata, nextId, pending, codec>>

-----------------------------------------------------------------------------
(* The handlers of one file: preview, download, edit, save *)

\* parsed ? parsed.originalName : filename
OriginalNameOf(filename) ==
    LET parsed == parseFilename(filename)
    IN  IF parsed # Null THEN parsed.originalName ELSE filename

\* parsed ? parsed.fileId : 'N/A'
FileIdOf(filename) ==
    LET parsed == parseFilename(filename)
    IN  IF parsed # Null THEN parsed.fileId ELSE NA

\* a preview that records the request before it looks for the file
PreviewLoggingFirst(p) ==
    /\ Receive
    /\ LET fileId == FileIdOf(p[2])
           meta == IF IsFile(p)
                   THEN UpdateFileMetadata(fileMetadata, fileId,
                                           [lastAccessed |-> ToISOString(now)])
                   ELSE fileMetadata
           hist == LogActivity(fileHistory, "preview", OriginalNameOf(p[2]),
                               fileId, Dirname(p))
       IN  /\ fileMetadata' = meta
           /\ fileHistory' = hist
           /\ SavePersistentData(meta, hist)
           /\ resp' = [op |-> "preview", status |-> IF IsFile(p) THEN 200 ELSE 404,
                       path |-> p]
    /\ UNCHANGED <<files, folders, nextId, pending, codec>>

\* GET /preview, the file being readable
Preview(p) ==
    /\ Receive
    /\ IF ~IsFile(p)
       THEN /\ resp' = [op |-> "preview", status |-> 404, path |-> p]
            /\ UNCHANGED <<fileMetadata, fileHistory, savedMetadata, savedHistory>>
       ELSE LET fileId == FileIdOf(p[2])
                meta == UpdateFileMetadata(fileMetadata, fileId,
                                           [lastAccessed |-> ToISOString(now)])
                hist == LogActivity(fileHistory, "preview", OriginalNameOf(p[2]),
                                    fileId, Dirname(p))
            IN  /\ fileMetadata' = meta
                /\ fileHistory' = hist
                /\ SavePersistentData(meta, hist)
                /\ resp' = [op |-> "preview", status |-> 200, path |-> p]
    /\ UNCHANGED <<files, folders, nextId, pending, codec>>

\* the count of a handler that read the record before the requests in
\* flight wrote theirs
DownloadCountStale(meta, fileId) ==
    IF fileId \in DOMAIN meta THEN meta[fileId].downloads - codec.inflight + 1 ELSE 1

\* the downloads of the update of line 484
DownloadCount(meta, fileId) ==
    IF fileId \in DOMAIN meta THEN meta[fileId].downloads + 1 ELSE 1

\* GET /download, res.download sending the file
Download(p) ==
    /\ Receive
    /\ IF ~IsFile(p)
       THEN /\ resp' = [op |-> "download", status |-> 404, path |-> p]
            /\ UNCHANGED <<fileMetadata, fileHistory, savedMetadata, savedHistory>>
       ELSE LET fileId == FileIdOf(p[2])
                meta == UpdateFileMetadata(fileMetadata, fileId,
                            [downloads |-> DownloadCount(fileMetadata, fileId),
                             lastAccessed |-> ToISOString(now)])
                hist == LogActivity(fileHistory, "download", OriginalNameOf(p[2]),
                                    fileId, Dirname(p))
            IN  /\ fileMetadata' = meta
                /\ fileHistory' = hist
                /\ SavePersistentData(meta, hist)
                /\ resp' = [op |-> "download", status |-> 200, path |-> p]
    /\ UNCHANGED <<files, folders, nextId, pending, codec>>

\* fileType === 'text' || fileType === 'code'
Editable(filename) == getFileType(filename) \in {"text", "code"}

\* GET /edit, the file being readable
EditView(p) ==
    /\ Receive
    /\ IF ~IsFile(p)
       THEN /\ resp' = [op |-> "edit_view", status |-> 404, path |-> p]
            /\ UNCHANGED <<fileMetadata, savedMetadata, savedHistory>>
       ELSE IF ~Editable(p[2])
       THEN /\ resp' = [op |-> "edit_view", status |-> 400, path |-> p]
            /\ UNCHANGED <<fileMetadata, savedMetadata, savedHistory>>
       ELSE LET fileId == FileIdOf(p[2])
                meta == UpdateFileMetadata(fileMetadata, fileId,
                                           [lastAccessed |-> ToISOString(now)])
            IN  /\ fileMetadata' = meta
                /\ IF fileId \in DOMAIN fileMetadata
                   THEN SavePersistentData(meta, fileHistory)
                   ELSE UNCHANGED <<savedMetadata, savedHistory>>
                /\ resp' = [op |-> "edit_view", status |-> 200, path |-> p]
    /\ UNCHANGED <<files, folders, fileHistory, nextId, pending, codec>>

\* POST /save, the file being writable; size: the length of req.body.content
Save(p, size) ==
    /\ Receive
    /\ IF ~IsFile(p)
       THEN /\ resp' = [op |-> "save", status |-> 404, path |-> p]
            /\ UNCHANGED <<files, fileMetadata, fileHistory, savedMetadata, savedHistory>>
       ELSE IF ~Editable(p[2])
       THEN /\ resp' = [op |-> "save", status |-> 400, path |-> p]
            /\ UNCHANGED <<files, fileMetadata, fileHistory, savedMetadata, savedHistory>>
       ELSE LET fileId == FileIdOf(p[2])
                meta == UpdateFileMetadata(fileMetadata, fileId,
                            [size |-> size, lastModified |-> ToISOString(now),
                             lastAccessed |-> ToISOString(now)])
                hist == LogActivity(fileHistory, "edit", OriginalNameOf(p[2]),
                                    fileId, Dirname(p))
            IN  /\ files' = [files EXCEPT ![p] = [size |-> size, mtime |-> now]]
                /\ fileMetadata' = meta
                /\ fileHistory' = hist
                /\ SavePersistentData(meta, hist)
                /\ resp' = [op |-> "save", status |-> 302, path |-> p]
    /\ UNCHANGED <<folders, nextId, pending, codec>>

-----------------------------------------------------------------------------
(* POST /delete and POST /delete-multiple *)

\* fs.rmSync(folder, {recursive: true, force: true}) on the files
RmSync(fs, folder) == [q \in {r \in DOMAIN fs : r[1] # folder} |-> fs[q]]

\* fs.unlinkSync(p) on the files
UnlinkSync(fs, p) == [q \in DOMAIN fs \ {p} |-> fs[q]]

\* a delete that leaves the record in the store
DeleteRecordKept(meta, fileId) == meta

\* delete fileMetadata[fileId]
DeleteRecord(meta, fileId) == Remove(meta, fileId)

Delete(p) ==
    /\ Receive
    /\ IF ~ExistsSync(p)
       THEN /\ resp' = [op |-> "delete", status |-> 404, path |-> p]
            /\ UNCHANGED <<files, folders, fileMetadata, fileHistory, savedMetadata,
                           savedHistory>>
       ELSE IF IsDirectory(p)
       THEN LET hist == LogActivity(fileHistory, "delete_folder", p[2], NA, Dirname(p))
            IN  /\ files' = RmSync(files, p[2])
                /\ folders' = folders \ {p[2]}
                /\ fileHistory' = hist
                /\ SavePersistentData(fileMetadata, hist)
                /\ resp' = [op |-> "delete", status |-> 302, path |-> p]
                /\ UNCHANGED fileMetadata
       ELSE LET fileId == FileIdOf(p[2])
                meta == DeleteRecord(fileMetadata, fileId)
                hist == LogActivity(fileHistory, "delete_file", OriginalNameOf(p[2]),
                                    fileId, Dirname(p))
            IN  /\ files' = UnlinkSync(files, p)
                /\ fileMetadata' = meta
                /\ fileHistory' = hist
                /\ SavePersistentData(meta, hist)
                /\ resp' = [op |-> "delete", status |-> 302, path |-> p]
                /\ UNCHANGED folders
    /\ UNCHANGED <<nextId, pending, codec>>

\* a loop body that does not count the items it does not find
DeleteItemUncounted(itemPath, st) ==
    IF itemPath \in DOMAIN st.files
    THEN [st EXCEPT !.files = UnlinkSync(@, itemPath),
                    !.meta = DeleteRecord(@, FileIdOf(itemPath[2])),
                    !.deletedCount = @ + 1]
    ELSE IF itemPath[1] = Root /\ itemPath[2] \in st.folders
    THEN [st EXCEPT !.files = RmSync(@, itemPath[2]),
                    !.folders = @ \ {itemPath[2]},
                    !.deletedCount = @ + 1]
    ELSE st

\* the body of itemsToDelete.forEach for one item;
\* st = [files, folders, meta, hist, deletedCount, errorCount]
DeleteItem(itemPath, st) ==
    IF itemPath \in DOMAIN st.files
    THEN LET fileId == FileIdOf(itemPath[2])
         IN  [st EXCEPT !.files = UnlinkSync(@, itemPath),
                        !.meta = DeleteRecord(@, fileId),
                        !.hist = LogActivity(@, "delete_file", OriginalNameOf(itemPath[2]),
                                             fileId, <<>>),
                        !.deletedCount = @ + 1]
    ELSE IF itemPath[1] = Root /\ itemPath[2] \in st.folders
    THEN [st EXCEPT !.files = RmSync(@, itemPath[2]),
                    !.folders = @ \ {itemPath[2]},
                    !.hist = LogActivity(@, "delete_folder", itemPath[2], NA, <<>>),
                    !.deletedCount = @ + 1]
    ELSE [st EXCEPT !.errorCount = @ + 1]

RECURSIVE DeleteItems(_, _)
DeleteItems(items, st) ==
    IF items = <<>> THEN st
    ELSE DeleteItems(Tail(items), DeleteItem(Head(items), st))

\* path.join(dir, name) as one string
FullName(p) == IF p[1] = Root THEN p[2] ELSE p[1] \o <<"/">> \o p[2]

\* req.body.items: up to MaxBatch different paths, in the order of their names
Batches ==
    { [i \in 1..Cardinality(S) |->
          InNameOrder({[name |-> FullName(q), path |-> q] : q \in S})[i].path]
      : S \in {T \in SUBSET Targets : Cardinality(T) <= MaxBatch} }

DeleteMultiple(items) ==
    /\ Receive
    /\ LET st == DeleteItems(items, [files |-> files, folders |-> folders,
                                     meta |-> fileMetadata, hist |-> fileHistory,
                                     deletedCount |-> 0, errorCount |-> 0])
       IN  /\ files' = st.files
           /\ folders' = st.folders
           /\ fileMetadata' = st.meta
           /\ fileHistory' = st.hist
           /\ SavePersistentData(st.meta, st.hist)
           /\ resp' = [op |-> "delete_multiple",
                       status |-> IF st.errorCount > 0 THEN 500 ELSE 302,
                       items |-> items,
                       deleted |-> st.deletedCount, failed |-> st.errorCount]
    /\ UNCHANGED <<nextId, pending, codec>>

-----------------------------------------------------------------------------
(* POST /rename *)

\* the new name of a renamed file (lines 654-661): the sanitised base of
\* newName, and the extension of newName or else of the old name
RenamedFile(oldFilename, newName) ==
    LET oldExt == ExtName(oldFilename)
        sanitizedBaseName == Sanitize(BaseName(newName, ExtName(newName)))
        newExt == IF ExtName(newName) # <<>> THEN ExtName(newName) ELSE oldExt
    IN  sanitizedBaseName \o newExt

\* an update of the record of a renamed file that leaves the type as it was
RenameRecordKeepingType(rec, newRelativePath) ==
    [rec EXCEPT !.name = BaseName(newRelativePath[2], ExtName(newRelativePath[2])),
                !.path = newRelativePath,
                !.lastModified = ToISOString(now)]

\* the update of the record of a renamed file (lines 677-680)
RenameRecord(rec, newRelativePath) ==
    [rec EXCEPT !.name = BaseName(newRelativePath[2], ExtName(newRelativePath[2])),
                !.path = newRelativePath,
                !.lastModified = ToISOString(now),
                !.type = getFileType(newRelativePath[2])]

\* oldFilename + ' -> ' + newName
Arrow(oldFilename, newName) == oldFilename \o <<" ","-",">"," ">> \o newName

Rename(p, newName) ==
    /\ Receive
    /\ IF ~ExistsSync(p)
       THEN /\ resp' = [op |-> "rename", status |-> 404, path |-> p]
            /\ UNCHANGED <<files, folders, fileMetadata, fileHistory, savedMetadata,
                           savedHistory>>
       ELSE IF newName = <<>>
       THEN /\ resp' = [op |-> "rename", status |-> 400, path |-> p]
            /\ UNCHANGED <<files, folders, fileMetadata, fileHistory, savedMetadata,
                           savedHistory>>
       ELSE LET isDirectory == IsDirectory(p)
                newFilename == IF isDirectory THEN Sanitize(newName)
                               ELSE RenamedFile(p[2], newName)
                newRelativePath == <<p[1], newFilename>>
                parsed == parseFilename(p[2])
                hist == LogActivity(fileHistory, "rename", Arrow(p[2], newName),
                                    IF parsed # Null THEN parsed.fileId ELSE NA, Dirname(p))
                meta == IF parsed # Null /\ ~isDirectory /\ parsed.fileId \in DOMAIN fileMetadata
                        THEN [fileMetadata EXCEPT ![parsed.fileId] =
                                  RenameRecord(@, newRelativePath)]
                        ELSE fileMetadata
            IN  IF ExistsSync(newRelativePath)
                THEN /\ resp' = [op |-> "rename", status |-> 409, path |-> p]
                     /\ UNCHANGED <<files, folders, fileMetadata, fileHistory,
                                    savedMetadata, savedHistory>>
                ELSE /\ IF isDirectory
                        THEN /\ folders' = (folders \ {p[2]}) \cup {newFilename}
                             /\ files' = [q \in { IF r[1] = p[2] THEN <<newFilename, r[2]>> ELSE r
                                                  : r \in DOMAIN files } |->
                                            IF q[1] = newFilename THEN files[<<p[2], q[2]>>]
                                            ELSE files[q]]
                        ELSE /\ folders' = folders
                             /\ files' = [q \in (DOMAIN files \ {p}) \cup {newRelativePath} |->
                                            IF q = newRelativePath THEN files[p] ELSE files[q]]
                     /\ fileMetadata' = meta
                     /\ fileHistory' = hist
                     /\ SavePersistentData(meta, hist)
                     /\ resp' = [op |-> "rename", status |-> 302, path |-> p,
                                 to |-> newRelativePath]
    /\ UNCHANGED <<nextId, pending, codec>>

-----------------------------------------------------------------------------
(* POST /copy, without req.body.destinationPath: into the folder of the source *)

\* base + '_copy' + copyCount + ext
CopyCandidate(itemName, copyCount) ==
    LET ext == ExtName(itemName)
    IN  BaseName(itemName, ext) \o <<"_","c","o","p","y">> \o NumToStr(copyCount) \o ext

\* the while loop of lines 708-716: the first name that does not exist
CopyName(dir, itemName) ==
    IF ~ExistsSync(<<dir, itemName>>) THEN itemName
    ELSE LET free == { n \in 1..(Cardinality(DOMAIN files) + Cardinality(folders) + 1) :
                         ~ExistsSync(<<dir, CopyCandidate(itemName, n)>>) }
         IN  CopyCandidate(itemName, CHOOSE n \in free : \A m \in free : n <= m)

\* a copy that keeps the id of its source
CopyIdOfSource(sourceParsed) == sourceParsed.fileId

\* the id of the copy: a new random id
CopyId(sourceParsed) == FreshIds[nextId + 1]

\* the record of the copy of a managed file (lines 734-745)
CopyRecord(newFileId, sourceParsed, stats, newPath) ==
    [id |-> newFileId, name |-> sourceParsed.originalName, size |-> stats.size,
     uploaded |-> ToISOString(now), type |-> getFileType(sourceParsed.originalName),
     path |-> newPath, originalName |-> sourceParsed.originalName, downloads |-> 0,
     lastAccessed |-> Null, lastModified |-> ToISOString(now)]

To(itemName, newFilename) == itemName \o <<" ","t","o"," ">> \o newFilename

Copy(p) ==
    /\ Receive
    /\ IF ~ExistsSync(p)
       THEN /\ resp' = [op |-> "copy", status |-> 404, path |-> p]
            /\ UNCHANGED <<files, fileMetadata, fileHistory, savedMetadata, savedHistory,
                           nextId>>
       ELSE IF IsDirectory(p)
       THEN \* fs.copyFileSync of a directory throws
            /\ resp' = [op |-> "copy", status |-> 500, path |-> p]
            /\ UNCHANGED <<files, fileMetadata, fileHistory, savedMetadata, savedHistory,
                           nextId>>
       ELSE LET itemName == p[2]
                newFilename == CopyName(p[1], itemName)
                sourceParsed == parseFilename(itemName)
                stats == [size |-> files[p].size, mtime |-> now]
            IN  IF sourceParsed # Null
                THEN /\ nextId < Len(FreshIds)
                     /\ LET newFileId == CopyId(sourceParsed)
                            newFileManagedName ==
                                NumToStr(now) \o <<"-">> \o newFileId \o <<"-">>
                                    \o sourceParsed.originalName
                            newPath == <<p[1], newFileManagedName>>
                            meta == Put(fileMetadata, newFileId,
                                        CopyRecord(newFileId, sourceParsed, stats, newPath))
                            hist == LogActivity(fileHistory, "copy", To(itemName, newFilename),
                                                newFileId, Dirname(p))
                        IN  /\ files' = Put(files, newPath, stats)
                            /\ fileMetadata' = meta
                            /\ fileHistory' = hist
                            /\ SavePersistentData(meta, hist)
                            /\ nextId' = nextId + 1
                            /\ resp' = [op |-> "copy", status |-> 302, path |-> p,
                                        to |-> newPath]
                ELSE LET hist == LogActivity(fileHistory, "copy",
                                     To(itemName, newFilename)
                                         \o <<" ","(","u","n","m","a","n","a","g","e","d",")">>,
                                     NA, Dirname(p))
                     IN  /\ files' = Put(files, <<p[1], newFilename>>, stats)
                         /\ fileHistory' = hist
                         /\ SavePersistentData(fileMetadata, hist)
                         /\ resp' = [op |-> "copy", status |-> 302, path |-> p,
                                     to |-> <<p[1], newFilename>>]
                         /\ UNCHANGED <<fileMetadata, nextId>>
    /\ UNCHANGED <<folders, pending, codec>>

-----------------------------------------------------------------------------
(* GET /share *)

Share(p) ==
    /\ Receive
    /\ IF ~ExistsSync(p)
       THEN /\ resp' = [op |-> "share", status |-> 404, path |-> p]
            /\ UNCHANGED <<fileHistory, savedMetadata, savedHistory>>
       ELSE LET hist == LogActivity(fileHistory, "share", OriginalNameOf(p[2]),
                                    FileIdOf(p[2]), Dirname(p))
            IN  /\ fileHistory' = hist
                /\ SavePersistentData(fileMetadata, hist)
                /\ resp' = [op |-> "share", status |-> 200, path |-> p]
    /\ UNCHANGED <<files, folders, fileMetadata, nextId, pending, codec>>

-----------------------------------------------------------------------------
Next ==
    \/ \E dir \in Dirs \cup folders : ListStart(dir)
    \/ ListCallback
    \/ \E dir \in Dirs \cup folders : ApiFilesStart(dir)
    \/ ApiFilesCallback
    \/ \E r \in UploadRequests : Upload(r.dir, r.list)
    \/ \E f \in FolderNames \cup {<<>>} : CreateFolder(f)
    \/ \E p \in Targets : Preview(p)
    \/ \E p \in Targets : Download(p)
    \/ \E p \in Targets : EditView(p)
    \/ \E p \in Targets, size \in ContentSizes : Save(p, size)
    \/ \E p \in Targets : Delete(p)
    \/ \E items \in Batches : DeleteMultiple(items)
    \/ \E p \in Targets, newName \in NewNames : Rename(p, newName)
    \/ \E p \in Targets : Copy(p)
    \/ \E p \in Targets : Share(p)

Spec == Init /\ [][Next]_vars

-----------------------------------------------------------------------------
(* Start of the server over documents that may be damaged *)

\* the documents a run may leave: none, one JSON.parse rejects, an intact one
PersistedDocuments(v) == { NoDocument, Damaged(v), Document(v) }

\* the file of the earlier run with every pair of documents
PersistedRuns ==
    { [files |-> [p \in {InitPath} |-> InitStat], metadata |-> m, history |-> h] :
        m \in PersistedDocuments([i \in {<<"p">>} |-> InitRecord]),
        h \in PersistedDocuments(<<InitEntry>>) }

InitStartup == InitFrom(PersistedRuns)

SpecStartup == InitStartup /\ [][Next]_vars

-----------------------------------------------------------------------------
(* Requests whose file operation fails with an I/O error.  Each action is   *)
(* the handler of the request taken along its catch branch.                 *)

\* the previews that read the file: readFileSync for text and code,
\* statSync for what has no viewer
PreviewReads(filename) ==
    getFileType(filename) \notin {"image", "pdf", "audio", "video"}

\* GET /preview, readFileSync or statSync throwing (lines 441-468)
PreviewFails(p) ==
    /\ Receive
    /\ IsFile(p)
    /\ PreviewReads(p[2])
    /\ LET fileId == FileIdOf(p[2])
           meta == UpdateFileMetadata(fileMetadata, fileId,
                                      [lastAccessed |-> ToISOString(now)])
           hist == LogActivity(fileHistory, "preview", OriginalNameOf(p[2]),
                               fileId, Dirname(p))
       IN  /\ fileMetadata' = meta
           /\ fileHistory' = hist
           /\ SavePersistentData(meta, hist)
           /\ resp' = [op |-> "preview", status |-> 500, path |-> p]
    /\ UNCHANGED <<files, folders, nextId, pending, codec>>

\* GET /download, res.download failing before the headers are sent
\* (lines 484-494)
DownloadFails(p) ==
    /\ Receive
    /\ IsFile(p)
    /\ LET fileId == FileIdOf(p[2])
           meta == UpdateFileMetadata(fileMetadata, fileId,
                       [downloads |-> DownloadCount(fileMetadata, fileId),
                        lastAccessed |-> ToISOString(now)])
           hist == LogActivity(fileHistory, "download", OriginalNameOf(p[2]),
                               fileId, Dirname(p))
       IN  /\ fileMetadata' = meta
           /\ fileHistory' = hist
           /\ SavePersistentData(meta, hist)
           /\ resp' = [op |-> "download", status |-> 500, path |-> p]
    /\ UNCHANGED <<files, folders, nextId, pending, codec>>

\* GET /edit, readFileSync throwing (lines 515-522)
EditViewFails(p) ==
    /\ Receive
    /\ IsFile(p)
    /\ Editable(p[2])
    /\ resp' = [op |-> "edit_view", status |-> 500, path |-> p]
    /\ UNCHANGED <<files, folders, fileMetadata, fileHistory, savedMetadata,
                   savedHistory, nextId, pending, codec>>

\* POST /save, writeFileSync throwing (lines 543-552)
SaveFails(p) ==
    /\ Receive
    /\ IsFile(p)
    /\ Editable(p[2])
    /\ resp' = [op |-> "save", status |-> 500, path |-> p]
    /\ UNCHANGED <<files, folders, fileMetadata, fileHistory, savedMetadata,
                   savedHistory, nextId, pending, codec>>

\* POST /delete, rmSync or unlinkSync throwing (lines 570-584)
DeleteFails(p) ==
    /\ Receive
    /\ ExistsSync(p)
    /\ resp' = [op |-> "delete", status |-> 500, path |-> p]
    /\ UNCHANGED <<files, folders, fileMetadata, fileHistory, savedMetadata,
                   savedHistory, nextId, pending, codec>>

\* POST /rename, renameSync throwing (lines 669-689)
RenameFails(p, newName) ==
    /\ Receive
    /\ ExistsSync(p)
    /\ newName # <<>>
    /\ ~ExistsSync(<<p[1], IF IsDirectory(p) THEN Sanitize(newName)
                           ELSE RenamedFile(p[2], newName)>>)
    /\ resp' = [op |-> "rename", status |-> 500, path |-> p]
    /\ UNCHANGED <<files, folders, fileMetadata, fileHistory, savedMetadata,
                   savedHistory, nextId, pending, codec>>

\* POST /copy of a file, copyFileSync throwing (lines 721-722, 757-760)
CopyFails(p) ==
    /\ Receive
    /\ IsFile(p)
    /\ resp' = [op |-> "copy", status |-> 500, path |-> p]
    /\ UNCHANGED <<files, folders, fileMetadata, fileHistory, savedMetadata,
                   savedHistory, nextId, pending, codec>>

\* POST /copy of a managed file, the renameSync of line 732 throwing: the
\* copy stays on disk under its temporary name
CopyRenameFails(p) ==
    /\ Receive
    /\ IsFile(p)
    /\ parseFilename(p[2]) # Null
    /\ nextId < Len(FreshIds)
    /\ nextId' = nextId + 1
    /\ files' = Put(files, <<p[1], CopyName(p[1], p[2])>>,
                    [size |-> files[p].size, mtime |-> now])
    /\ resp' = [op |-> "copy", status |-> 500, path |-> p]
    /\ UNCHANGED <<folders, fileMetadata, fileHistory, savedMetadata, savedHistory,
                   pending, codec>>

\* GET / or GET /api/files on a directory fs.readdir cannot read: the
\* callback gets an error that is not ENOENT (lines 260-266, 808-810)
ReaddirFails(url, dir) ==
    /\ Receive
    /\ pending = Null
    /\ dir = Root \/ dir \in folders
    /\ pending' = [url |-> url, dir |-> dir, err |-> "EACCES", entries |-> {}]
    /\ UNCHANGED <<files, folders, fileMetadata, fileHistory, savedMetadata,
                   savedHistory, nextId, resp, codec>>

Fault ==
    \/ \E p \in Targets : PreviewFails(p)
    \/ \E p \in Targets : DownloadFails(p)
    \/ \E p \in Targets : EditViewFails(p)
    \/ \E p \in Targets : SaveFails(p)
    \/ \E p \in Targets : DeleteFails(p)
    \/ \E p \in Targets : RenameFails(p, <<"y",".","z">>)
    \/ \E p \in Targets : CopyFails(p)
    \/ \E p \in Targets : CopyRenameFails(p)
    \/ \E url \in {"/", "/api/files"}, dir \in Dirs : ReaddirFails(url, dir)

NextIO == Next \/ Fault

SpecIO == Init /\ [][NextIO]_vars

-----------------------------------------------------------------------------
(* The filename codec on its own: one upload's name is encoded by           *)
(* storage.filename and the stored name is decoded by parseFilename.        *)

CodecChars == {"c", ".", "+", "-"}
CodecNames == UNION { [1..n -> CodecChars] : n \in 1..MaxNameLen }
CodecMime == <<"t","e","x","t","/","x","-","c">>

InitCodec ==
    /\ files = <<>>
    /\ folders = {}
    /\ fileMetadata = <<>>
    /\ fileHistory = <<>>
    /\ savedMetadata = NoDocument
    /\ savedHistory = NoDocument
    /\ now = StartTime
    /\ nextId = 0
    /\ pending = Null
    /\ resp = [op |-> "none", status |-> 0]
    /\ codec \in { [stage |-> "request", uniqueSuffix |-> t, fileId |-> i, originalname |-> n]
                   : t \in 0..MaxStamp, i \in Range(FreshIds), n \in CodecNames }

\* fileFilter and storage.filename of the uploaded file
Encode ==
    /\ codec.stage = "request"
    /\ codec' = [stage |-> "stored", uniqueSuffix |-> codec.uniqueSuffix,
                 fileId |-> codec.fileId, originalname |-> codec.originalname,
                 accepted |-> fileFilter([originalname |-> codec.originalname,
                                          mimetype |-> CodecMime]),
                 filename |-> StorageFilename(codec.uniqueSuffix, codec.fileId,
                                              codec.originalname)]
    /\ UNCHANGED <<files, folders, fileMetadata, fileHistory, savedMetadata,
                   savedHistory, now, nextId, pending, resp>>

\* parseFilename of the stored name
Decode ==
    /\ codec.stage = "stored"
    /\ codec' = [stage |-> "parsed", uniqueSuffix |-> codec.uniqueSuffix,
                 fileId |-> codec.fileId, originalname |-> codec.originalname,
                 accepted |-> codec.accepted, filename |-> codec.filename,
                 parsed |-> parseFilename(codec.filename)]
    /\ UNCHANGED <<files, folders, fileMetadata, fileHistory, savedMetadata,
                   savedHistory, now, nextId, pending, resp>>

NextCodec == Encode \/ Decode

SpecCodec == InitCodec /\ [][NextCodec]_vars

-----------------------------------------------------------------------------
(* parseFilename on its own: a name read from a directory is decoded.       *)

\* the segments the names are made of: empty, a number, a number followed by
\* a letter, a letter, a letter followed by a number
NameSegments == { <<>>, <<"1">>, <<"1","2","x">>, <<"x">>, <<"x","1">> }

\* entry.name of the entries of a directory
EntryNames ==
    { Join(segs) : segs \in UNION { [1..n -> NameSegments] : n \in 1..MaxSegs } }

InitParse ==
    /\ files = <<>>
    /\ folders = {}
    /\ fileMetadata = <<>>
    /\ fileHistory = <<>>
    /\ savedMetadata = NoDocument
    /\ savedHistory = NoDocument
    /\ now = StartTime
    /\ nextId = 0
    /\ pending = Null
    /\ resp = [op |-> "none", status |-> 0]
    /\ codec \in { [stage |-> "entry", filename |-> n] : n \in EntryNames }

\* parseFilename(entry.name)
ParseEntry ==
    /\ codec.stage = "entry"
    /\ codec' = [stage |-> "decoded", filename |-> codec.filename,
                 parsed |-> parseFilename(codec.filename)]
    /\ UNCHANGED <<files, folders, fileMetadata, fileHistory, savedMetadata,
                   savedHistory, now, nextId, pending, resp>>

NextParse == ParseEntry

SpecParse == InitParse /\ [][NextParse]_vars

\* C11: parseFilename returns null exactly when the name has fewer than three
\* '-'-delimited segments or its first segment is not an integer (a
\* non-empty run of digits); otherwise it returns the first segment as the
\* timestamp, the second as the id and the others joined by '-' as
\* originalName.
C11_DecodeExact ==
    codec.stage = "decoded" =>
        LET parts == Split(codec.filename)
            integer == Len(parts) >= 1 /\ parts[1] # <<>>
                          /\ \A i \in 1..Len(parts[1]) : parts[1][i] \in Digits
        IN  IF Len(parts) < 3 \/ ~integer
            THEN codec.parsed = Null
            ELSE /\ codec.parsed # Null
                 /\ codec.parsed.uploadedTimestamp = DigitsValue(parts[1], 0)
                 /\ codec.parsed.fileId = parts[2]
                 /\ codec.parsed.originalName = Join(SubSeq(parts, 3, Len(parts)))

-----------------------------------------------------------------------------
(* getFileType on its own: a file name is classified.                       *)

\* s.toUpperCase() of a lower-case s
ToUpperCase(s) ==
    [i \in 1..Len(s) |-> IF s[i] \in Lower
                         THEN UpperSeq[CHOOSE n \in 1..26 : LowerSeq[n] = s[i]]
                         ELSE s[i]]

\* what follows the last '.' of the names: every extension of the table, in
\* lower and in upper case, extensions the table does not have, nothing
ClassifiedExts ==
    TypeExts \cup { ToUpperCase(e) : e \in TypeExts }
        \cup { <<"z","z">>, <<"c","o","n","s","t","r","u","c","t","o","r">>, <<>> }

\* the names classified: with nothing, a letter or a dotted name before the
\* last '.', and names without any '.'
ClassifiedNames ==
    { b \o <<".">> \o e : b \in { <<>>, <<"a">>, <<"a",".","b">> }, e \in ClassifiedExts }
    \cup { <<"a">>, <<"t","x","t">> }

InitClassify ==
    /\ files = <<>>
    /\ folders = {}
    /\ fileMetadata = <<>>
    /\ fileHistory = <<>>
    /\ savedMetadata = NoDocument
    /\ savedHistory = NoDocument
    /\ now = StartTime
    /\ nextId = 0
    /\ pending = Null
    /\ resp = [op |-> "none", status |-> 0]
    /\ codec \in { [stage |-> "name", filename |-> n] : n \in ClassifiedNames }

\* getFileType(filename)
Classify ==
    /\ codec.stage = "name"
    /\ codec' = [stage |-> "classified", filename |-> codec.filename,
                 type |-> getFileType(codec.filename)]
    /\ UNCHANGED <<files, folders, fileMetadata, fileHistory, savedMetadata,
                   savedHistory, now, nextId, pending, resp>>

NextClassify == Classify

SpecClassify == InitClassify /\ [][NextClassify]_vars

\* C12: the category of a name is that of what follows its last
\* '.', lower-cased, in the table, "other" when the table does not have it
\* or the name has no '.', and is always one of the nine categories image,
\* pdf, document, text, code, archive, audio, video, other.
C12_NineCategories ==
    codec.stage = "classified" =>
        LET d == LastIndexOf(codec.filename, ".")
            ext == IF d = 0 THEN <<>>
                   ELSE ToLowerCase(SubSeq(codec.filename, d + 1, Len(codec.filename)))
        IN  /\ codec.type \in {"image", "pdf", "document", "text", "code", "archive",
                               "audio", "video", "other"}
            /\ \A p \in TypeMap : p[1] = ext => codec.type = p[2]
            /\ ext \notin TypeExts => codec.type = "other"

-----------------------------------------------------------------------------
(* The traversal check of the listing endpoints (lines 251-257, 800-805) *)

\* const uploadDir = 'uploads'
UploadDir == <<"u","p","l","o","a","d","s">>

\* req.query.path as its segments between '/': the parent directory, the
\* name of the root, a name that starts with the name of the root, a folder
QueryPaths ==
    LET segments == { <<".",".">>, UploadDir, UploadDir \o <<"2">>, <<"d">> }
    IN  UNION { [1..n -> segments] : n \in 0..MaxDepth }

\* path.normalize of a relative path, on segments; done is the part already
\* normalised: '..' removes the segment before it unless there is none or it
\* is '..' itself
RECURSIVE Normalize(_, _)
Normalize(done, segs) ==
    IF segs = <<>> THEN done
    ELSE IF Head(segs) = <<".",".">> /\ done # <<>> /\ done[Len(done)] # <<".",".">>
         THEN Normalize(SubSeq(done, 1, Len(done) - 1), Tail(segs))
         ELSE Normalize(Append(done, Head(segs)), Tail(segs))

\* the string of a normalised path: its segments joined by '/', '.' for none
RECURSIVE PathString(_)
PathString(segs) ==
    IF segs = <<>> THEN <<".">>
    ELSE IF Len(segs) = 1 THEN segs[1]
    ELSE segs[1] \o <<"/">> \o PathString(Tail(segs))

\* path.join(uploadDir, currentPath), currentPath being
\* req.query.path ? path.normalize(req.query.path) : ''
AbsolutePath(query) == Normalize(<<>>, <<UploadDir>> \o Normalize(<<>>, query))

\* String.prototype.startsWith
StartsWith(str, prefix) ==
    Len(str) >= Len(prefix) /\ SubSeq(str, 1, Len(prefix)) = prefix

InitTraversal ==
    /\ files = <<>>
    /\ folders = {}
    /\ fileMetadata = <<>>
    /\ fileHistory = <<>>
    /\ savedMetadata = NoDocument
    /\ savedHistory = NoDocument
    /\ now = StartTime
    /\ nextId = 0
    /\ pending = Null
    /\ resp = [op |-> "none", status |-> 0]
    /\ codec \in { [stage |-> "query", url |-> u, query |-> q] :
                     u \in {"/", "/api/files"}, q \in QueryPaths }

\* GET / and GET /api/files up to fs.readdir: 400, or the directory read
CheckPath ==
    /\ codec.stage = "query"
    /\ LET absolutePath == AbsolutePath(codec.query)
       IN  codec' = [stage |-> "checked", url |-> codec.url, query |-> codec.query,
                     absolutePath |-> absolutePath,
                     status |-> IF ~StartsWith(PathString(absolutePath), UploadDir)
                                THEN 400 ELSE 0,
                     readdir |-> StartsWith(PathString(absolutePath), UploadDir)]
    /\ UNCHANGED <<files, folders, fileMetadata, fileHistory, savedMetadata,
                   savedHistory, now, nextId, pending, resp>>

NextTraversal == CheckPath

SpecTraversal == InitTraversal /\ [][NextTraversal]_vars

\* C26: a listing endpoint reads a directory only if the requested path
\* resolves to the upload root or to a path below it, and answers 400
\* without reading for every path that resolves elsewhere.
C26_PathContainment ==
    codec.stage = "checked" =>
       LET inside == /\ codec.absolutePath # <<>>
                     /\ codec.absolutePath[1] = UploadDir
                     /\ \A i \in 1..Len(codec.absolutePath) :
                           codec.absolutePath[i] # <<".",".">>
       IN  /\ codec.readdir => inside
           /\ ~inside => (codec.status = 400 /\ ~codec.readdir)

-----------------------------------------------------------------------------
(* Downloads in flight: GET /download in its two steps, the handler up to   *)
(* res.download and the callback of res.download, next to previews, saves   *)
(* and listings of the same file.  codec counts the requests that passed    *)
(* the handler and those whose transfer has not ended.                      *)

InitDownloads ==
    /\ files = [p \in {InitPath} |-> InitStat]
    /\ folders = {}
    /\ savedMetadata = Document([i \in {<<"p">>} |-> InitRecord])
    /\ savedHistory \in {NoDocument, Document(<<InitEntry>>)}
    /\ fileMetadata = LoadDocument(savedMetadata, <<>>)
    /\ fileHistory = LoadDocument(savedHistory, <<>>)
    /\ now = StartTime
    /\ nextId = 0
    /\ pending = Null
    /\ resp = [op |-> "none", status |-> 0]
    /\ codec = [stage |-> "downloads", passed |-> 0, inflight |-> 0]

\* the handler of GET /download up to the call of res.download (lines
\* 472-487): it runs to its end before any other handler or callback
DownloadBegin(p) ==
    /\ Receive
    /\ IsFile(p)
    /\ LET fileId == FileIdOf(p[2])
           meta == UpdateFileMetadata(fileMetadata, fileId,
                       [downloads |-> DownloadCount(fileMetadata, fileId),
                        lastAccessed |-> ToISOString(now)])
           hist == LogActivity(fileHistory, "download", OriginalNameOf(p[2]),
                               fileId, Dirname(p))
       IN  /\ fileMetadata' = meta
           /\ fileHistory' = hist
           /\ SavePersistentData(meta, hist)
    /\ codec' = [codec EXCEPT !.passed = @ + 1, !.inflight = @ + 1]
    /\ UNCHANGED <<files, folders, nextId, pending, resp>>

\* the transfer of one request ends: the callback of res.download, with an
\* error before the headers were sent or without one (lines 487-494)
DownloadEnd(err) ==
    /\ codec.inflight > 0
    /\ codec' = [codec EXCEPT !.inflight = @ - 1]
    /\ resp' = [op |-> "download", status |-> IF err THEN 500 ELSE 200,
                path |-> InitPath]
    /\ UNCHANGED <<files, folders, fileMetadata, fileHistory, savedMetadata,
                   savedHistory, now, nextId, pending>>

NextDownloads ==
    \/ DownloadBegin(InitPath)
    \/ \E err \in BOOLEAN : DownloadEnd(err)
    \/ Preview(InitPath)
    \/ \E size \in ContentSizes : Save(InitPath, size)
    \/ ListStart(Root)
    \/ ListCallback

SpecDownloads == InitDownloads /\ [][NextDownloads]_vars

\* C28: however the downloads of the file interleave with each other and
\* with previews, saves and listings, the downloads of its record is the
\* number of requests that have passed the handler, in particular when no
\* transfer is in flight any more.
C28_NoLostIncrement ==
    /\ <<"p">> \in DOMAIN fileMetadata
    /\ fileMetadata[<<"p">>].downloads = codec.passed

\* three downloads of the file are in flight at once and all are counted
C28_Witness ==
    /\ codec.inflight = 3 /\ codec.passed = 3
    /\ fileMetadata[<<"p">>].downloads = 3

-----------------------------------------------------------------------------
(* The counter of active connections: the middleware of lines 210-226 and   *)
(* the ends a response can take.  codec holds the counter and, for every    *)
(* request that reached the middleware, whether its response is still open, *)
(* has finished, or was closed by the client before it finished.            *)

InitConnections ==
    /\ files = [p \in {InitPath} |-> InitStat]
    /\ folders = {}
    /\ savedMetadata = Document([i \in {<<"p">>} |-> InitRecord])
    /\ savedHistory = Document(<<InitEntry>>)
    /\ fileMetadata = LoadDocument(savedMetadata, <<>>)
    /\ fileHistory = LoadDocument(savedHistory, <<>>)
    /\ now = StartTime
    /\ nextId = 0
    /\ pending = Null
    /\ resp = [op |-> "none", status |-> 0]
    /\ codec = [stage |-> "connections", activeConnections |-> 0, requests |-> <<>>]

\* a request reaches the middleware: activeConnections++ and the listener
\* for 'finish' (lines 221-225)
RequestBegin ==
    /\ Len(codec.requests) < MaxConnections
    /\ codec' = [codec EXCEPT !.activeConnections = @ + 1,
                              !.requests = Append(@, "open")]
    /\ UNCHANGED <<files, folders, fileMetadata, fileHistory, savedMetadata,
                   savedHistory, now, nextId, pending, resp>>

\* the response of request i has been handed over whole: 'finish' is
\* emitted and the listener of line 222 runs
ResponseFinish(i) ==
    /\ codec.requests[i] = "open"
    /\ codec' = [codec EXCEPT !.activeConnections = @ - 1,
                              !.requests[i] = "finished"]
    /\ UNCHANGED <<files, folders, fileMetadata, fileHistory, savedMetadata,
                   savedHistory, now, nextId, pending, resp>>

\* the connection of request i is closed before the response has finished:
\* the response emits 'close' and never 'finish', and no listener of the
\* program runs
ConnectionAbort(i) ==
    /\ codec.requests[i] = "open"
    /\ codec' = [codec EXCEPT !.requests[i] = "closed"]
    /\ UNCHANGED <<files, folders, fileMetadata, fileHistory, savedMetadata,
                   savedHistory, now, nextId, pending, resp>>

NextConnections ==
    \/ RequestBegin
    \/ \E i \in 1..Len(codec.requests) : ResponseFinish(i)
    \/ \E i \in 1..Len(codec.requests) : ConnectionAbort(i)

SpecConnections == InitConnections /\ [][NextConnections]_vars

-----------------------------------------------------------------------------
(* Properties of the requests *)

\* the step is the callback of a listing that answers 200
Listed == ListCallback /\ resp'.status = 200

\* the names of the listed snapshot that are managed files on disk when the
\* callback runs
ListedManaged ==
    { n \in { e.name : e \in pending.entries } :
        <<pending.dir, n>> \in DOMAIN files /\ parseFilename(n) # Null }

\* C1: every successful download of a managed file that exists on disk leaves
\* a record for the file's id whose downloads is one more than before the
\* download, and 1 when the store had no record (the file was never listed).
C1_DownloadCounts ==
    [][\A p \in Targets :
         (Download(p) /\ resp'.status = 200 /\ parseFilename(p[2]) # Null) =>
            LET id == parseFilename(p[2]).fileId
            IN  /\ id \in DOMAIN fileMetadata'
                /\ fileMetadata'[id].downloads =
                       (IF id \in DOMAIN fileMetadata THEN fileMetadata[id].downloads ELSE 0) + 1
      ]_vars

\* C2: after a successful rename of a managed file, the new name on disk
\* decodes to the same id and the same upload timestamp as the old name.
C2_RenameKeepsIdentity ==
    [][\A p \in Targets, newName \in NewNames :
         (Rename(p, newName) /\ resp'.status = 302 /\ IsFile(p)
             /\ parseFilename(p[2]) # Null) =>
            LET old == parseFilename(p[2])
                new == parseFilename(resp'.to[2])
            IN  /\ new # Null
                /\ new.fileId = old.fileId
                /\ new.uploadedTimestamp = old.uploadedTimestamp
      ]_vars

\* C3: a listing adds one record for every id that a managed file of the
\* listed directory decodes to and that the store does not hold, keyed by
\* that id, with downloads 0 and lastAccessed null; it adds no record of any
\* other id and removes none.
C3_FirstSight ==
    [][Listed =>
         LET seen == { parseFilename(n).fileId : n \in ListedManaged }
         IN  /\ DOMAIN fileMetadata' = DOMAIN fileMetadata \cup seen
             /\ \A id \in seen \ DOMAIN fileMetadata :
                    /\ fileMetadata'[id].id = id
                    /\ fileMetadata'[id].downloads = 0
                    /\ fileMetadata'[id].lastAccessed = Null
             /\ \A id \in DOMAIN fileMetadata \ seen :
                    fileMetadata'[id] = fileMetadata[id]
      ]_vars

\* a listing has just added the record of a managed file it saw first
C3_Witness ==
    /\ resp.op = "list" /\ resp.status = 200
    /\ pending = Null
    /\ fileHistory # <<>> /\ Head(fileHistory).action = "view_folder"
    /\ Len(fileHistory) = 1
    /\ <<"p">> \in DOMAIN fileMetadata
    /\ fileMetadata[<<"p">>].downloads = 0

\* C4: a listing leaves downloads and lastAccessed of the record of every
\* managed file it lists as they were, and sets the record's size and
\* lastModified from the stat of that file.
C4_ListingRefreshes ==
    [][Listed =>
         \A n \in ListedManaged :
            LET id == parseFilename(n).fileId
                stats == files[<<pending.dir, n>>]
            IN  id \in DOMAIN fileMetadata =>
                  /\ fileMetadata'[id].downloads = fileMetadata[id].downloads
                  /\ fileMetadata'[id].lastAccessed = fileMetadata[id].lastAccessed
                  /\ fileMetadata'[id].size = stats.size
                  /\ fileMetadata'[id].lastModified = ToISOString(stats.mtime)
      ]_vars

\* C5: after a successful delete of a managed file, by the single delete or
\* as an item of a bulk delete that was found and removed at its turn, the
\* file is not on disk and the store has no record of its id.
C5_DeleteRemoves ==
    [][/\ \A p \in Targets :
            (Delete(p) /\ resp'.status = 302 /\ IsFile(p) /\ parseFilename(p[2]) # Null) =>
               /\ p \notin DOMAIN files'
               /\ parseFilename(p[2]).fileId \notin DOMAIN fileMetadata'
       /\ \A items \in Batches :
            DeleteMultiple(items) =>
               \A i \in 1..Len(items) :
                  (/\ IsFile(items[i])
                   /\ ~\E j \in 1..(i - 1) : items[j] = <<Root, items[i][1]>>
                   /\ parseFilename(items[i][2]) # Null) =>
                     /\ items[i] \notin DOMAIN files'
                     /\ parseFilename(items[i][2]).fileId \notin DOMAIN fileMetadata'
      ]_vars

\* the file of the earlier run, which had a record, has just been deleted
C5_Witness ==
    /\ resp.op = "delete" /\ resp.status = 302 /\ resp.path = InitPath
    /\ Len(fileHistory) = 2
    /\ fileHistory[2] = InitEntry
    /\ fileHistory[1].action = "delete_file"
    /\ fileHistory[1].fileId = <<"p">>
    /\ InitPath \notin DOMAIN files
    /\ <<"p">> \notin DOMAIN fileMetadata

\* C6: a bulk delete goes through every item of its batch: the reported
\* deleted count is the number of items that were on disk at their turn, all
\* of which are removed, the reported failure count is the number of the
\* other items, and every record removed from the store has the id of an
\* item that was found on disk.
C6_BulkCounts ==
    [][\A items \in Batches :
         DeleteMultiple(items) =>
            LET Found == { i \in 1..Len(items) :
                             \/ IsDirectory(items[i])
                             \/ /\ IsFile(items[i])
                                /\ ~\E j \in 1..(i - 1) : items[j] = <<Root, items[i][1]>> }
            IN  /\ resp'.deleted = Cardinality(Found)
                /\ resp'.failed = Len(items) - Cardinality(Found)
                /\ \A i \in Found :
                      /\ items[i] \notin DOMAIN files'
                      /\ ~(items[i][1] = Root /\ items[i][2] \in folders')
                /\ DOMAIN fileMetadata \ DOMAIN fileMetadata'
                      \subseteq { FileIdOf(items[i][2]) : i \in Found }
      ]_vars

\* a batch of two whose first item was not on disk and whose second item,
\* an uploaded file, was deleted
C6_Witness ==
    /\ resp.op = "delete_multiple" /\ resp.status = 500
    /\ Len(resp.items) = 2
    /\ resp.items[1] = InitPath
    /\ resp.failed = 1 /\ resp.deleted = 1
    /\ fileHistory # <<>>
    /\ Head(fileHistory).action = "delete_file"
    /\ Head(fileHistory).fileId = <<"a">>
    /\ resp.items[2] \notin DOMAIN files

\* C7: a successful copy of a managed file adds exactly one record; its id is
\* not the id of the source and was not in the store, its downloads is 0 and
\* its lastAccessed null; exactly one file is added, whose name decodes to
\* that id; the source file and every record the store held are unchanged.
C7_CopyFresh ==
    [][\A p \in Targets :
         (Copy(p) /\ resp'.status = 302 /\ parseFilename(p[2]) # Null) =>
            LET added == DOMAIN fileMetadata' \ DOMAIN fileMetadata
                to == resp'.to
            IN  /\ Cardinality(added) = 1
                /\ \A id \in added :
                      /\ id # parseFilename(p[2]).fileId
                      /\ fileMetadata'[id].id = id
                      /\ fileMetadata'[id].downloads = 0
                      /\ fileMetadata'[id].lastAccessed = Null
                      /\ parseFilename(to[2]) # Null
                      /\ parseFilename(to[2]).fileId = id
                /\ to \notin DOMAIN files
                /\ DOMAIN files' = DOMAIN files \cup {to}
                /\ \A q \in DOMAIN files : files'[q] = files[q]
                /\ \A id \in DOMAIN fileMetadata : fileMetadata'[id] = fileMetadata[id]
      ]_vars

\* the file of the earlier run has just been copied, and both records are
\* in the store
C7_Witness ==
    /\ resp.op = "copy" /\ resp.status = 302 /\ resp.path = InitPath
    /\ InitPath \in DOMAIN files
    /\ resp.to \in DOMAIN files
    /\ <<"p">> \in DOMAIN fileMetadata
    /\ parseFilename(resp.to[2]).fileId \in DOMAIN fileMetadata \ {<<"p">>}

\* C8: the log never holds more than HistoryCap entries (the model's 1000),
\* and every step leaves it as it was or puts new entries, stamped with the
\* current time, in front of it and keeps of the old entries the newest
\* ones, in their order, as far as the cap allows.
C8_CapAndFifo ==
    [][/\ Len(fileHistory) <= HistoryCap
       /\ Len(fileHistory') <= HistoryCap
       /\ \E k \in 0..Len(fileHistory') :
             /\ k = 0 => fileHistory' = fileHistory
             /\ Len(fileHistory') =
                    IF Len(fileHistory) + k <= HistoryCap THEN Len(fileHistory) + k
                    ELSE HistoryCap
             /\ SubSeq(fileHistory', k + 1, Len(fileHistory'))
                    = SubSeq(fileHistory, 1, Len(fileHistory') - k)
             /\ \A i \in 1..k : fileHistory'[i].timestamp = ToISOString(now)
             /\ \A i \in (k + 1)..Len(fileHistory') :
                    fileHistory'[i].timestamp.iso <= now
      ]_vars

\* the log is full of downloads and one more download than it holds has
\* been recorded
C8_Witness ==
    /\ Len(fileHistory) = HistoryCap
    /\ \A i \in 1..HistoryCap : fileHistory[i].action = "download"
    /\ <<"p">> \in DOMAIN fileMetadata
    /\ fileMetadata[<<"p">>].downloads = HistoryCap + 1

\* C9: every request that succeeds leaves a new entry of its own kind at the
\* head of the log: a listing, an upload (one entry per file), a created
\* folder, a preview, a download, an edit view, a save, a delete, a rename,
\* a copy and a share.
C9_EveryOperationLogs ==
    [][(/\ ~(pending = Null /\ pending' # Null)
        /\ resp'.status \in {200, 302}
        /\ ~(resp'.op = "delete_multiple" /\ resp'.items = <<>>)) =>
          LET n == IF resp'.op = "upload" /\ resp'.n < HistoryCap THEN resp'.n
                   ELSE IF resp'.op = "upload" THEN HistoryCap ELSE 1
              kinds == CASE resp'.op = "list" -> {"view_folder"}
                         [] resp'.op = "edit_view" -> {"edit_view", "edit"}
                         [] resp'.op = "save" -> {"edit_save", "edit"}
                         [] resp'.op \in {"delete", "delete_multiple"} ->
                                {"delete", "delete_file", "delete_folder"}
                         [] OTHER -> {resp'.op}
          IN  /\ Len(fileHistory') >= n
              /\ \A i \in 1..n :
                    /\ fileHistory'[i].action \in kinds
                    /\ fileHistory'[i].timestamp = ToISOString(now)
      ]_vars

C14_FailureKeepsStore ==
    [][(/\ ~(pending = Null /\ pending' # Null)
        /\ resp'.status = 500
        /\ resp'.op \in {"preview", "download", "edit_view", "save", "delete",
                         "rename", "copy"}) =>
          fileMetadata' = fileMetadata
      ]_vars

-----------------------------------------------------------------------------
\* the entry's processing throws when the callback runs: statSync of an entry
\* that is gone; GET / does not stat a directory
EntryFails(e) ==
    IF e.isDirectory
    THEN pending.url = "/api/files" /\ ~IsDirectory(<<pending.dir, e.name>>)
    ELSE ~IsFile(<<pending.dir, e.name>>)

\* the directory entries a listing response shows
ReturnedEntries(r) ==
    IF r.op = "list"
    THEN { f.name : f \in Range(r.folders) }
         \cup { IF f.fileId = NA THEN f.id ELSE f.id[2] : f \in Range(r.files) }
    ELSE { it.id[2] : it \in Range(r.items) }

ReturnedCount(r) ==
    IF r.op = "list" THEN Len(r.folders) + Len(r.files) ELSE Len(r.items)

C16_ListingErrors ==
    [][(pending # Null /\ pending' = Null /\ pending.err # "") =>
         /\ resp'.status = (IF pending.err = "ENOENT" THEN 404 ELSE 500)
         /\ fileMetadata' = fileMetadata /\ fileHistory' = fileHistory
         /\ savedMetadata' = savedMetadata /\ savedHistory' = savedHistory
      ]_vars

\* C17: while a persisted document JSON.parse rejects is on disk, the server
\* runs with the empty store (the empty log for the history document), and
\* what the operations save from then on is the store they worked on.
C17_MalformedDiscarded ==
    /\ (savedMetadata.exists /\ ~savedMetadata.valid) => fileMetadata = <<>>
    /\ (savedHistory.exists /\ ~savedHistory.valid) => fileHistory = <<>>
    /\ savedMetadata.valid => Stringify(fileMetadata) = savedMetadata.value
    /\ savedHistory.valid => fileHistory = savedHistory.value

\* GET /api/files has answered over the store that started empty from a
\* damaged metadata document: the managed file on disk has no record
C17_Witness ==
    /\ savedMetadata.exists /\ ~savedMetadata.valid
    /\ savedMetadata.value # <<>>
    /\ resp.op = "api_files" /\ resp.status = 200
    /\ Len(resp.items) = 1
    /\ resp.items[1].isManaged /\ resp.items[1].downloads = NotTracked

\* C18: for every id of the store, a step that leaves the file of its record
\* on disk leaves the record in the store, with the downloads it had, or with
\* one more when the step is a download.
C18_DownloadsMonotone ==
    [][\A id \in DOMAIN fileMetadata :
          fileMetadata[id].path \in DOMAIN files' =>
            /\ id \in DOMAIN fileMetadata'
            /\ \/ fileMetadata'[id].downloads = fileMetadata[id].downloads
               \/ /\ resp'.op = "download"
                  /\ fileMetadata'[id].downloads = fileMetadata[id].downloads + 1
      ]_vars

\* C19: a record enters the store with lastAccessed null; a preview, download
\* or edit view that succeeds on a file sets the lastAccessed of the record of
\* the file's id to the time of the request; and the lastAccessed of a record
\* that stays in the store changes in no step other than a preview, a
\* download or an edit view.
C19_LastAccessed ==
    [][/\ \A id \in DOMAIN fileMetadata' \ DOMAIN fileMetadata :
             fileMetadata'[id].lastAccessed = Null
       /\ \A id \in DOMAIN fileMetadata \cap DOMAIN fileMetadata' :
             /\ (/\ ~(pending = Null /\ pending' # Null)
                 /\ resp'.op \in {"preview", "download", "edit_view"}
                 /\ resp'.status = 200
                 /\ FileIdOf(resp'.path[2]) = id) =>
                   fileMetadata'[id].lastAccessed = ToISOString(now)
             /\ fileMetadata'[id].lastAccessed # fileMetadata[id].lastAccessed =>
                   resp'.op \in {"preview", "download", "edit_view"}
      ]_vars

\* C20: a record that stays in the store keeps its uploaded field in every
\* step, and the uploaded field of a record whose file is on disk under a
\* name that decodes to the record's id is the timestamp of that name.
C20_UploadedImmutable ==
    /\ [][\A id \in DOMAIN fileMetadata \cap DOMAIN fileMetadata' :
             fileMetadata'[id].uploaded = fileMetadata[id].uploaded]_vars
    /\ [](\A id \in DOMAIN fileMetadata :
             LET rec    == fileMetadata[id]
                 parsed == parseFilename(rec.path[2])
             IN  (IsFile(rec.path) /\ parsed # Null /\ FileIdOf(rec.path[2]) = id) =>
                   rec.uploaded = ToISOString(parsed.uploadedTimestamp))

\* C21: after every step of a handler that changed the Metadata Store or the
\* Activity Log, the metadata document on disk parses to the store and the
\* history document to the log.
C21_DocumentsEqualStores ==
    [][(fileMetadata' # fileMetadata \/ fileHistory' # fileHistory) =>
         /\ savedMetadata' = Document(fileMetadata')
         /\ savedHistory' = Document(fileHistory')
      ]_vars

\* the names of the listed snapshot that are files on disk and do not decode
ListedUnmanaged ==
    { n \in { e.name : e \in { x \in pending.entries : ~x.isDirectory } } :
        <<pending.dir, n>> \in DOMAIN files /\ parseFilename(n) = Null }

\* C22: GET / returns, for each file of the directory whose name does not
\* decode, one item whose id and name are the raw file name, whose fileId is
\* 'N/A' and whose downloads are 'N/A'; and the listing changes no record
\* other than those of the ids the decodable names of the directory carry.
C22_UnmanagedEntries ==
    [][Listed =>
         LET seen == { parseFilename(n).fileId : n \in ListedManaged }
         IN  /\ \A n \in ListedUnmanaged :
                  /\ Cardinality({ i \in 1..Len(resp'.files) :
                                     resp'.files[i].name = n }) = 1
                  /\ \A i \in 1..Len(resp'.files) :
                        resp'.files[i].name = n =>
                          /\ resp'.files[i].fileId = NA
                          /\ resp'.files[i].id = n
                          /\ resp'.files[i].downloads = NotTracked
             /\ DOMAIN fileMetadata' \subseteq DOMAIN fileMetadata \cup seen
             /\ \A id \in DOMAIN fileMetadata \ seen :
                  /\ id \in DOMAIN fileMetadata'
                  /\ fileMetadata'[id] = fileMetadata[id]
      ]_vars

\* GET / has shown the file renamed to y.z as an unmanaged item, the record
\* of the id its old name carried being in the store
C22_Witness ==
    /\ resp.op = "list" /\ resp.status = 200
    /\ Len(resp.files) = 1
    /\ resp.files[1].id = <<"y",".","z">> /\ resp.files[1].fileId = NA
    /\ resp.files[1].downloads = NotTracked
    /\ <<"p">> \in DOMAIN fileMetadata
    /\ fileMetadata[<<"p">>].path = <<Root, <<"y",".","z">>>>

\* C23: after a rename that succeeds on a file whose name decodes to an id of
\* the store, the record of that id has the path of the renamed file, which
\* is on disk, and the type getFileType gives for the new file name; its
\* downloads, lastAccessed and uploaded are as before.
C23_RenameUpdatesRecord ==
    [][(/\ ~(pending = Null /\ pending' # Null)
        /\ resp'.op = "rename" /\ resp'.status = 302
        /\ IsFile(resp'.path)
        /\ FileIdOf(resp'.path[2]) \in DOMAIN fileMetadata) =>
          LET id == FileIdOf(resp'.path[2])
          IN  /\ id \in DOMAIN fileMetadata'
              /\ fileMetadata'[id].path = resp'.to
              /\ resp'.to \in DOMAIN files'
              /\ resp'.path \notin DOMAIN files'
              /\ fileMetadata'[id].type = getFileType(resp'.to[2])
              /\ fileMetadata'[id].downloads = fileMetadata[id].downloads
              /\ fileMetadata'[id].lastAccessed = fileMetadata[id].lastAccessed
              /\ fileMetadata'[id].uploaded = fileMetadata[id].uploaded
      ]_vars

\* the file of the earlier run was downloaded and then renamed to y.z: its
\* record has the new path, the type of the new name and the download
C23_Witness ==
    /\ resp.op = "rename" /\ resp.status = 302
    /\ resp.path = InitPath /\ resp.to = <<Root, <<"y",".","z">>>>
    /\ <<"p">> \in DOMAIN fileMetadata
    /\ fileMetadata[<<"p">>].path = resp.to
    /\ fileMetadata[<<"p">>].type = "other"
    /\ fileMetadata[<<"p">>].downloads = 1
    /\ fileMetadata[<<"p">>].lastAccessed # Null

\* the items of a listing in the order renderDashboard shows them: the rows
\* of the folders, then the rows of the files
Rows(r) == r.folders \o r.files

\* C24: in the page of a listing every folder comes before every file, and
\* among the folders and among the files no item comes after an item whose
\* name localeCompare puts behind it.
C24_ListingOrdered ==
    (resp.op = "list" /\ resp.status = 200) =>
       \A i, j \in 1..Len(Rows(resp)) :
          i < j =>
            LET a == Rows(resp)[i]
                b == Rows(resp)[j]
            IN  /\ ~(a.type # "folder" /\ b.type = "folder")
                /\ (a.type = "folder") = (b.type = "folder") =>
                      ~LocaleLess(b.name, a.name)

\* GET / has shown two files of different names: a managed file and, after
\* it, a file whose name does not decode
C24_Witness ==
    /\ resp.op = "list" /\ resp.status = 200
    /\ Len(resp.files) = 2
    /\ resp.files[1].name = <<"x",".","c">> /\ resp.files[2].fileId = NA
    /\ LocaleLess(resp.files[1].name, resp.files[2].name)

\* C25: in every state, each record of the store has a path that is a file on
\* disk whose name decodes to the id of the record.
C25_NoOrphanRecords ==
    \A id \in DOMAIN fileMetadata :
       /\ IsFile(fileMetadata[id].path)
       /\ FileIdOf(fileMetadata[id].path[2]) = id

\* C27: a delete, single or bulk, leaves in the store and unchanged the
\* record of every file that is on disk after it.
C27_DeleteKeepsOtherRecords ==
    [][(/\ ~(pending = Null /\ pending' # Null)
        /\ resp'.op \in {"delete", "delete_multiple"}) =>
          \A id \in DOMAIN fileMetadata :
             fileMetadata[id].path \in DOMAIN files' =>
               /\ id \in DOMAIN fileMetadata'
               /\ fileMetadata'[id] = fileMetadata[id]
      ]_vars

\* C29: when a file is deleted after a listing has read the directory and
\* before its callback processes the entries, the listing does not return
\* the file and neither creates nor changes a record for the id of its name.
C29_DeletedNotResurrected ==
    [][(/\ pending # Null /\ pending.url = "/" /\ pending' = Null
        /\ resp.op = "delete" /\ resp.status = 302
        /\ resp.path[1] = pending.dir
        /\ [name |-> resp.path[2], isDirectory |-> FALSE] \in pending.entries
        /\ resp.path \notin DOMAIN files) =>
          LET id == FileIdOf(resp.path[2])
          IN  /\ resp'.status = 200 =>
                   \A i \in 1..Len(resp'.files) : resp'.files[i].id # resp.path
              /\ id \in DOMAIN fileMetadata' =>
                   /\ id \in DOMAIN fileMetadata
                   /\ fileMetadata'[id] = fileMetadata[id]
      ]_vars

\* C30: the counter of active connections is the number of requests in
\* flight, those whose response has neither finished nor been closed; so it
\* is not negative, and it is 0 when no request is in flight.
C30_CounterIsInFlight ==
    codec.activeConnections =
        Cardinality({i \in 1..Len(codec.requests) : codec.requests[i] = "open"})

\* C10: for every timestamp, id and name of an accepted upload, the stored
\* name decodes to the same timestamp and id, and to an originalName that is
\* the whole uploaded name, extension included, with every character outside
\* [A-Za-z0-9._-] replaced by '_'.
C10_RoundTrip ==
    (codec.stage = "parsed" /\ codec.accepted) =>
        /\ codec.parsed # Null
        /\ codec.parsed.uploadedTimestamp = codec.uniqueSuffix
        /\ codec.parsed.fileId = codec.fileId
        /\ codec.parsed.originalName = Sanitize(codec.originalname)

====
